---- MODULE Spec2Model ----
(***************************************************************************)
(* Model of cipher/mac.c, the message authentication code dispatcher of    *)
(* Libgcrypt: the registry lookups, the handle life cycle (open, close),   *)
(* the dispatch operations (setkey, setiv, write, read, verify, reset)     *)
(* and the registry queries (map_name, algo_name, algo_info).              *)
(*                                                                         *)
(* Pointers are naturals, NULL is 0.  A handle's memory is a record of its *)
(* fields, every field a natural, so that "every byte is zero" is "every   *)
(* field is 0".  Error values are the libgpg-error numbers.                *)
(***************************************************************************)
EXTENDS Naturals, Sequences, FiniteSets

VARIABLES mac_list, mem, live, last

vars == <<mac_list, mem, live, last>>

(* ------------------------------ bounds --------------------------------- *)

\* Largest buffer length a caller passes (keylen, ivlen, inlen, *outlen, buflen).
MaxLen == 1

\* Longest algorithm name of a registry of the query specification.
MaxNameLen == 2

(* ------------------------- program constants --------------------------- *)

NULL == 0

GPG_ERR_NO_ERROR == 0
GPG_ERR_INV_ARG == 45
GPG_ERR_INV_OP == 61
GPG_ERR_MAC_ALGO == 197
GPG_ERR_ENOMEM == 32854
GPG_ERR_CHECKSUM == 10
GPG_ERR_SOURCE_GCRYPT == 1

GCRY_MAC_FLAG_SECURE == 1
CTX_MAGIC_NORMAL == 1507440815
CTX_MAGIC_SECURE == 307665662

GCRYCTL_RESET == 4
GCRYCTL_GET_KEYLEN == 6
GCRYCTL_TEST_ALGO == 8

(* ----------------------------- helpers --------------------------------- *)

Min(S) == CHOOSE x \in S : \A y \in S : x <= y

\* One step a handler takes: a callback of the descriptor, an allocator call,
\* a registry lookup; res is what the step returned.
Ev(name, res) == [ev |-> name, res |-> res]

Did(steps, name) == \E i \in 1..Len(steps) : steps[i].ev = name

\* gpg_error (code): the code tagged with libgcrypt's error source, 0 for no error.
gpg_error(code) ==
    IF code = GPG_ERR_NO_ERROR
    THEN GPG_ERR_NO_ERROR
    ELSE GPG_ERR_SOURCE_GCRYPT * 16777216 + (code % 65536)

(* --------------------------- descriptors ------------------------------- *)

AllOps == {"open", "close", "setkey", "setiv", "write", "read", "verify", "reset"}

MandatoryOps == {"open", "write", "setkey", "read", "verify", "reset"}

\* A descriptor: has_ops is "spec->ops is non-null", ops the entries of the
\* capability table that are non-null, get_keylen the value its key length
\* accessor returns (meaningful only when "get_keylen" is in ops).
Descriptor(algo, name, disabled, has_ops, ops, keylen) ==
    [algo |-> algo, name |-> name, disabled |-> disabled,
     has_ops |-> has_ops, ops |-> ops, keylen |-> keylen]

\* The capability tables of the life cycle specification: complete, without
\* one or both optional entries, without one mandatory entry.
OpsVariants ==
    {AllOps, AllOps \ {"close"}, AllOps \ {"setiv"}, AllOps \ {"close", "setiv"}}
    \cup {AllOps \ {m} : m \in MandatoryOps}

\* What a descriptor can be apart from its identity: enabled with each of the
\* capability tables or with none, disabled with a complete table or with none.
DescriptorKinds ==
    {[disabled |-> FALSE, has_ops |-> TRUE, ops |-> o] : o \in OpsVariants}
    \cup {[disabled |-> FALSE, has_ops |-> FALSE, ops |-> {}],
          [disabled |-> TRUE, has_ops |-> TRUE, ops |-> AllOps],
          [disabled |-> TRUE, has_ops |-> FALSE, ops |-> {}]}

\* Identity (id, name) of the descriptor at each position of the list.
Identities ==
    <<[algo |-> 5, name |-> <<"A">>], [algo |-> 1, name |-> <<"B", "a">>]>>

\* The kinds of the descriptors after the first: complete, enabled or disabled.
TailKinds ==
    {[disabled |-> d, has_ops |-> TRUE, ops |-> AllOps] : d \in BOOLEAN}

\* The registries of the life cycle specification: up to Len(Identities)
\* descriptors, ids and names unique; the first of any kind, the others
\* complete.
Registries ==
    UNION {
      { [i \in 1..n |-> Descriptor(Identities[i].algo, Identities[i].name,
                                   k[i].disabled, k[i].has_ops, k[i].ops, 0)]
        : k \in { f \in [1..n -> DescriptorKinds] :
                    \A i \in 2..n : f[i] \in TailKinds } }
      : n \in 0..Len(Identities) }

\* tolower of one character.
tolower(c) ==
    CASE c = "A" -> "a"
      [] c = "B" -> "b"
      [] OTHER -> c

\* The characters of algorithm names, and the names up to MaxNameLen long.
Chars == {"a", "A", "b"}

Names == UNION {[1..n -> Chars] : n \in 1..MaxNameLen}

SameButCase(a, b) ==
    Len(a) = Len(b) /\ \A i \in 1..Len(a) : tolower(a[i]) = tolower(b[i])

\* The kinds of the query specification: disabled or not; without capability
\* table, with one that has no key length accessor, with one whose accessor
\* returns 0 or a length.
InfoKinds ==
    {[disabled |-> d, has_ops |-> FALSE, ops |-> {}, keylen |-> 0] : d \in BOOLEAN}
    \cup {[disabled |-> d, has_ops |-> TRUE, ops |-> AllOps, keylen |-> 0]
          : d \in BOOLEAN}
    \cup {[disabled |-> d, has_ops |-> TRUE, ops |-> AllOps \cup {"get_keylen"},
           keylen |-> l] : d \in BOOLEAN, l \in 0..1}

\* The registries of the query specification: those that vary the names (ids
\* unique, names unique but for case) and those that vary the kinds.
InfoRegistries ==
    UNION {
      { [i \in 1..n |-> Descriptor(Identities[i].algo, nm[i], FALSE, TRUE, AllOps, 0)]
        : nm \in { f \in [1..n -> Names] :
                     \A i, j \in 1..n : i # j => ~SameButCase(f[i], f[j]) } }
      \cup
      { [i \in 1..n |-> Descriptor(Identities[i].algo, Identities[i].name,
                                   k[i].disabled, k[i].has_ops, k[i].ops, k[i].keylen)]
        : k \in [1..n -> InfoKinds] }
      : n \in 0..Len(Identities) }

(* ------------------------------ handles -------------------------------- *)

\* The addresses the allocator hands out: the model follows one handle.
Addrs == {1}

ZeroContext == [key |-> 0, iv |-> 0, msg |-> 0]

\* The algorithm's context in the handle: the key bytes and the iv bytes it
\* holds (their number), and whether message data has been absorbed.
\* A handle's memory with every byte zero (what calloc and wipememory leave).
ZeroHandle ==
    [magic |-> 0, spec |-> NULL, algo |-> 0, gcry_ctx |-> NULL, u |-> ZeroContext]

\* What the operations report: the call, its arguments (for a handle, also
\* the descriptor hd->spec it was bound to on entry), its return value, the
\* caller's handle slot after open, the steps taken in order, and the
\* contents of the handle memory handed to gcry_free.
Report(op, hd, spec, algo, flags, ctx, ptr, lenp, len, ret, slot, steps, released) ==
    [op |-> op, hd |-> hd, spec |-> spec, algo |-> algo, flags |-> flags, ctx |-> ctx,
     ptr |-> ptr, lenp |-> lenp, len |-> len, ret |-> ret, slot |-> slot,
     steps |-> steps, released |-> released, name |-> <<>>, name2 |-> <<>>,
     id |-> 0]

NoReport == Report("none", NULL, NULL, 0, 0, NULL, NULL, NULL, 0, 0, NULL, <<>>, <<>>)

(* ------------------------------ registry ------------------------------- *)

\* spec_from_algo: index of the first descriptor with this id, NULL if none.
spec_from_algo(algo) ==
    LET hits == {i \in 1..Len(mac_list) : mac_list[i].algo = algo}
    IN IF hits = {} THEN NULL ELSE Min(hits)

\* stricmp (a, b): 0 when the strings are equal but for case, nonzero otherwise.
stricmp(a, b) ==
    IF Len(a) = Len(b) /\ \A i \in 1..Len(a) : tolower(a[i]) = tolower(b[i])
    THEN 0
    ELSE 1

\* spec_from_name: index of the first descriptor with this name, NULL if none.
spec_from_name(name) ==
    LET hits == {i \in 1..Len(mac_list) : stricmp(name, mac_list[i].name) = 0}
    IN IF hits = {} THEN NULL ELSE Min(hits)

\* gcry_mac_map_name that returns the position in the list, not the id.
gcry_mac_map_name_position(strp, string) ==
    IF strp = NULL THEN 0 ELSE spec_from_name(string)

\* gcry_mac_map_name.  strp is the pointer string, string what it points to.
gcry_mac_map_name(strp, string) ==
    IF strp = NULL
    THEN 0
    ELSE LET spec == spec_from_name(string)
         IN IF spec # NULL THEN mac_list[spec].algo ELSE 0

\* gcry_mac_algo_name
gcry_mac_algo_name(algorithm) ==
    LET spec == spec_from_algo(algorithm)
    IN IF spec # NULL THEN mac_list[spec].name ELSE <<"?">>

\* check_mac_algo that does not look at the disabled flag.
check_mac_algo_ignores_disabled(algorithm) ==
    IF spec_from_algo(algorithm) # NULL THEN 0 ELSE GPG_ERR_MAC_ALGO

\* check_mac_algo
check_mac_algo(algorithm) ==
    LET spec == spec_from_algo(algorithm)
    IN IF spec # NULL /\ ~mac_list[spec].disabled
       THEN 0
       ELSE GPG_ERR_MAC_ALGO

\* gcry_mac_get_algo_keylen
gcry_mac_get_algo_keylen(algo) ==
    LET spec == spec_from_algo(algo)
    IN IF spec = NULL
       THEN 0
       ELSE IF ~mac_list[spec].has_ops \/ "get_keylen" \notin mac_list[spec].ops
       THEN 0
       ELSE mac_list[spec].keylen

\* gcry_mac_algo_info: the value returned and what *nbytes holds afterwards
\* (0 when it is not written).
gcry_mac_algo_info(algo, what, buffer, nbytes) ==
    LET r == CASE what = GCRYCTL_GET_KEYLEN ->
                    IF buffer # NULL \/ nbytes = NULL
                    THEN [err |-> GPG_ERR_INV_ARG, out |-> 0]
                    ELSE LET ui == gcry_mac_get_algo_keylen(algo)
                         IN IF ui > 0
                            THEN [err |-> GPG_ERR_NO_ERROR, out |-> ui]
                            ELSE [err |-> GPG_ERR_MAC_ALGO, out |-> 0]
               [] what = GCRYCTL_TEST_ALGO ->
                    IF buffer # NULL \/ nbytes # NULL
                    THEN [err |-> GPG_ERR_INV_ARG, out |-> 0]
                    ELSE [err |-> check_mac_algo(algo), out |-> 0]
               [] OTHER -> [err |-> GPG_ERR_INV_OP, out |-> 0]
    IN [ret |-> gpg_error(r.err), out |-> r.out]

(* ------------------- the descriptor's operations ----------------------- *)
(* The algorithm implementations behind the capability table.  Each takes   *)
(* the handle's memory h and the result cb the implementation returns, and  *)
(* yields the steps taken and the handle's memory afterwards.               *)

\* What a descriptor's operation may return.
CallbackResults == {GPG_ERR_NO_ERROR, GPG_ERR_CHECKSUM}

Outcome(err, steps, h) == [err |-> err, steps |-> steps, h |-> h]

ops_open(h, cb) == Outcome(cb, <<Ev("cb_open", cb)>>, h)

ops_close(h) == Outcome(GPG_ERR_NO_ERROR, <<Ev("cb_close", 0)>>, h)

ops_setkey(h, keylen, cb) ==
    Outcome(cb, <<Ev("cb_setkey", cb)>>,
            IF cb = GPG_ERR_NO_ERROR THEN [h EXCEPT !.u.key = keylen] ELSE h)

ops_setiv(h, ivlen, cb) ==
    Outcome(cb, <<Ev("cb_setiv", cb)>>,
            IF cb = GPG_ERR_NO_ERROR THEN [h EXCEPT !.u.iv = ivlen] ELSE h)

ops_write(h, inlen, cb) ==
    Outcome(cb, <<Ev("cb_write", cb)>>,
            IF cb = GPG_ERR_NO_ERROR /\ inlen > 0 THEN [h EXCEPT !.u.msg = 1] ELSE h)

ops_read(h, cb) == Outcome(cb, <<Ev("cb_read", cb)>>, h)

ops_verify(h, cb) == Outcome(cb, <<Ev("cb_verify", cb)>>, h)

ops_reset(h, cb) ==
    Outcome(cb, <<Ev("cb_reset", cb)>>,
            IF cb = GPG_ERR_NO_ERROR THEN [h EXCEPT !.u.msg = 0] ELSE h)

\* wipememory (hd, sizeof (*hd)): every byte of the handle becomes zero.
wipememory(h) == ZeroHandle

\* hd->spec->ops: the capability table of the descriptor a handle is bound to.
OpsOf(h) == mac_list[h.spec].ops

(* --------------------------- open and close ---------------------------- *)

OpenOutcome(err, hd, steps, m, l, released) ==
    [err |-> err, hd |-> hd, steps |-> steps, mem |-> m, live |-> l,
     released |-> released]

\* mac_open that keeps the handle when the descriptor's open fails.
mac_open_keeps_failed(hd0, algo, secure, ctx, a, cb) ==
    LET spec == spec_from_algo(algo)
        look == <<Ev("lookup", spec)>>
    IN IF spec = NULL \/ mac_list[spec].disabled \/ ~mac_list[spec].has_ops
          \/ ~(MandatoryOps \subseteq mac_list[spec].ops)
       THEN OpenOutcome(GPG_ERR_MAC_ALGO, hd0, look, mem, live, <<>>)
       ELSE
         LET alloc == look \o <<Ev(IF secure # 0 THEN "calloc_secure" ELSE "calloc", a)>>
         IN IF a = NULL
            THEN OpenOutcome(GPG_ERR_ENOMEM, hd0, alloc, mem, live, <<>>)
            ELSE
              LET h == [magic |-> IF secure # 0 THEN CTX_MAGIC_SECURE ELSE CTX_MAGIC_NORMAL,
                        spec |-> spec, algo |-> algo, gcry_ctx |-> ctx,
                        u |-> ZeroContext]
                  o == ops_open(h, cb)
              IN OpenOutcome(o.err, a, alloc \o o.steps,
                             [mem EXCEPT ![a] = o.h], live \cup {a}, <<>>)

\* mac_open that checks only that the descriptor is registered and enabled.
mac_open_unchecked_ops(hd0, algo, secure, ctx, a, cb) ==
    LET spec == spec_from_algo(algo)
        look == <<Ev("lookup", spec)>>
    IN IF spec = NULL \/ mac_list[spec].disabled
       THEN OpenOutcome(GPG_ERR_MAC_ALGO, hd0, look, mem, live, <<>>)
       ELSE
         LET alloc == look \o <<Ev(IF secure # 0 THEN "calloc_secure" ELSE "calloc", a)>>
         IN IF a = NULL
            THEN OpenOutcome(GPG_ERR_ENOMEM, hd0, alloc, mem, live, <<>>)
            ELSE
              LET h == [magic |-> IF secure # 0 THEN CTX_MAGIC_SECURE ELSE CTX_MAGIC_NORMAL,
                        spec |-> spec, algo |-> algo, gcry_ctx |-> ctx,
                        u |-> ZeroContext]
                  o == IF "open" \in mac_list[spec].ops
                       THEN ops_open(h, cb)
                       ELSE Outcome(GPG_ERR_NO_ERROR, <<>>, h)
              IN IF o.err # GPG_ERR_NO_ERROR
                 THEN OpenOutcome(o.err, hd0, alloc \o o.steps \o <<Ev("free", a)>>,
                                  mem, live, <<o.h>>)
                 ELSE OpenOutcome(o.err, a, alloc \o o.steps,
                                  [mem EXCEPT ![a] = o.h], live \cup {a}, <<>>)

\* mac_open.  hd0 is what the caller's *hd holds on entry, a the address the
\* allocator returns (NULL when it fails), cb the result of the descriptor's
\* open.
mac_open(hd0, algo, secure, ctx, a, cb) ==
    LET spec == spec_from_algo(algo)
        look == <<Ev("lookup", spec)>>
    IN IF spec = NULL
       THEN OpenOutcome(GPG_ERR_MAC_ALGO, hd0, look, mem, live, <<>>)
       ELSE IF mac_list[spec].disabled
       THEN OpenOutcome(GPG_ERR_MAC_ALGO, hd0, look, mem, live, <<>>)
       ELSE IF ~mac_list[spec].has_ops
       THEN OpenOutcome(GPG_ERR_MAC_ALGO, hd0, look, mem, live, <<>>)
       ELSE IF ~(MandatoryOps \subseteq mac_list[spec].ops)
       THEN OpenOutcome(GPG_ERR_MAC_ALGO, hd0, look, mem, live, <<>>)
       ELSE
         LET alloc == look \o <<Ev(IF secure # 0 THEN "calloc_secure" ELSE "calloc", a)>>
         IN IF a = NULL
            THEN OpenOutcome(GPG_ERR_ENOMEM, hd0, alloc, mem, live, <<>>)
            ELSE
              LET h == [magic |-> IF secure # 0 THEN CTX_MAGIC_SECURE ELSE CTX_MAGIC_NORMAL,
                        spec |-> spec, algo |-> algo, gcry_ctx |-> ctx,
                        u |-> ZeroContext]
                  o == ops_open(h, cb)
              IN IF o.err # GPG_ERR_NO_ERROR
                 THEN OpenOutcome(o.err, hd0, alloc \o o.steps \o <<Ev("free", a)>>,
                                  mem, live, <<o.h>>)
                 ELSE OpenOutcome(o.err, a, alloc \o o.steps,
                                  [mem EXCEPT ![a] = o.h], live \cup {a}, <<>>)

\* flags & ~GCRY_MAC_FLAG_SECURE and flags & GCRY_MAC_FLAG_SECURE, flags unsigned.
OtherFlagBits(flags) == flags - (flags % (2 * GCRY_MAC_FLAG_SECURE))
                        + (flags % GCRY_MAC_FLAG_SECURE)

SecureFlagBit(flags) == (flags \div GCRY_MAC_FLAG_SECURE) % 2

\* gcry_mac_open that passes every flag word on to mac_open.
gcry_mac_open_any_flags(algo, flags, ctx, a, cb) ==
    LET o == mac_open(NULL, algo, IF SecureFlagBit(flags) # 0 THEN 1 ELSE 0, ctx, a, cb)
    IN [ret |-> gpg_error(o.err),
        slot |-> IF o.err # GPG_ERR_NO_ERROR THEN NULL ELSE o.hd,
        o |-> o]

\* gcry_mac_open: the outcome of mac_open, the value returned and the
\* caller's handle slot *h.
gcry_mac_open(algo, flags, ctx, a, cb) ==
    LET hd == NULL
        o == IF OtherFlagBits(flags) # 0
             THEN OpenOutcome(GPG_ERR_INV_ARG, hd, <<>>, mem, live, <<>>)
             ELSE mac_open(hd, algo, IF SecureFlagBit(flags) # 0 THEN 1 ELSE 0,
                           ctx, a, cb)
    IN [ret |-> gpg_error(o.err),
        slot |-> IF o.err # GPG_ERR_NO_ERROR THEN NULL ELSE o.hd,
        o |-> o]

\* mac_close that releases the handle without wiping it.
mac_close_no_wipe(hd) ==
    LET h == mem[hd]
        c == IF "close" \in OpsOf(h)
             THEN ops_close(h)
             ELSE Outcome(GPG_ERR_NO_ERROR, <<>>, h)
    IN [steps |-> c.steps \o <<Ev("free", hd)>>,
        released |-> <<c.h>>]

\* mac_close: the steps taken and the memory handed to gcry_free.
mac_close(hd) ==
    LET h == mem[hd]
        c == IF "close" \in OpsOf(h)
             THEN ops_close(h)
             ELSE Outcome(GPG_ERR_NO_ERROR, <<>>, h)
        w == wipememory(c.h)
    IN [steps |-> c.steps \o <<Ev("wipe", hd), Ev("free", hd)>>,
        released |-> <<w>>]

(* ----------------------------- dispatch -------------------------------- *)

\* mac_reset
mac_reset(hd, cb) ==
    IF "reset" \in OpsOf(mem[hd])
    THEN ops_reset(mem[hd], cb)
    ELSE Outcome(GPG_ERR_NO_ERROR, <<>>, mem[hd])

\* mac_setkey that rejects a null key whatever its length.
mac_setkey_rejects_null(hd, key, keylen, cb) ==
    IF "setkey" \notin OpsOf(mem[hd])
    THEN Outcome(GPG_ERR_INV_ARG, <<>>, mem[hd])
    ELSE IF key = NULL
    THEN Outcome(GPG_ERR_INV_ARG, <<>>, mem[hd])
    ELSE ops_setkey(mem[hd], keylen, cb)

\* mac_setkey
mac_setkey(hd, key, keylen, cb) ==
    IF "setkey" \notin OpsOf(mem[hd])
    THEN Outcome(GPG_ERR_INV_ARG, <<>>, mem[hd])
    ELSE IF keylen > 0 /\ key = NULL
    THEN Outcome(GPG_ERR_INV_ARG, <<>>, mem[hd])
    ELSE ops_setkey(mem[hd], keylen, cb)

\* mac_setiv that treats a missing setiv as a successful no-op.
mac_setiv_absent_ok(hd, iv, ivlen, cb) ==
    IF ivlen > 0 /\ iv = NULL
    THEN Outcome(GPG_ERR_INV_ARG, <<>>, mem[hd])
    ELSE IF "setiv" \notin OpsOf(mem[hd])
    THEN Outcome(GPG_ERR_NO_ERROR, <<>>, mem[hd])
    ELSE ops_setiv(mem[hd], ivlen, cb)

\* mac_setiv
mac_setiv(hd, iv, ivlen, cb) ==
    IF "setiv" \notin OpsOf(mem[hd])
    THEN Outcome(GPG_ERR_INV_ARG, <<>>, mem[hd])
    ELSE IF ivlen > 0 /\ iv = NULL
    THEN Outcome(GPG_ERR_INV_ARG, <<>>, mem[hd])
    ELSE ops_setiv(mem[hd], ivlen, cb)

\* mac_write
mac_write(hd, inbuf, inlen, cb) ==
    IF "write" \notin OpsOf(mem[hd])
    THEN Outcome(GPG_ERR_INV_ARG, <<>>, mem[hd])
    ELSE IF inlen > 0 /\ inbuf = NULL
    THEN Outcome(GPG_ERR_INV_ARG, <<>>, mem[hd])
    ELSE ops_write(mem[hd], inlen, cb)

\* mac_read that does not look at *outlen.
mac_read_any_outlen(hd, outbuf, outlenp, outlen, cb) ==
    IF outbuf = NULL \/ outlenp = NULL \/ "read" \notin OpsOf(mem[hd])
    THEN Outcome(GPG_ERR_INV_ARG, <<>>, mem[hd])
    ELSE ops_read(mem[hd], cb)

\* mac_read.  outlenp is the pointer outlen, outlen the value it points to.
mac_read(hd, outbuf, outlenp, outlen, cb) ==
    IF outbuf = NULL \/ outlenp = NULL \/ outlen = 0 \/ "read" \notin OpsOf(mem[hd])
    THEN Outcome(GPG_ERR_INV_ARG, <<>>, mem[hd])
    ELSE ops_read(mem[hd], cb)

\* mac_verify
mac_verify(hd, buf, buflen, cb) ==
    IF buf = NULL \/ buflen = 0 \/ "verify" \notin OpsOf(mem[hd])
    THEN Outcome(GPG_ERR_INV_ARG, <<>>, mem[hd])
    ELSE ops_verify(mem[hd], cb)

\* gcry_mac_ctl
gcry_mac_ctl(hd, cmd, cb) ==
    LET o == IF cmd = GCRYCTL_RESET
             THEN mac_reset(hd, cb)
             ELSE Outcome(GPG_ERR_INV_OP, <<>>, mem[hd])
    IN Outcome(gpg_error(o.err), o.steps, o.h)

\* gcry_mac_setkey, gcry_mac_setiv, gcry_mac_write, gcry_mac_read,
\* gcry_mac_verify: the static function's outcome, its error passed
\* through gpg_error.
gcry_mac_setkey(hd, key, keylen, cb) ==
    LET o == mac_setkey(hd, key, keylen, cb)
    IN Outcome(gpg_error(o.err), o.steps, o.h)

gcry_mac_setiv(hd, iv, ivlen, cb) ==
    LET o == mac_setiv(hd, iv, ivlen, cb)
    IN Outcome(gpg_error(o.err), o.steps, o.h)

gcry_mac_write(hd, inbuf, inlen, cb) ==
    LET o == mac_write(hd, inbuf, inlen, cb)
    IN Outcome(gpg_error(o.err), o.steps, o.h)

gcry_mac_read(hd, outbuf, outlenp, outlen, cb) ==
    LET o == mac_read(hd, outbuf, outlenp, outlen, cb)
    IN Outcome(gpg_error(o.err), o.steps, o.h)

gcry_mac_verify(hd, buf, buflen, cb) ==
    LET o == mac_verify(hd, buf, buflen, cb)
    IN Outcome(gpg_error(o.err), o.steps, o.h)

(* ------------------------------ inputs --------------------------------- *)

AlgoInputs == {1, 5}
FlagInputs == 0..3
CtxInputs == {NULL, 1}
PtrInputs == {NULL, 1}
LenInputs == 0..MaxLen
CmdInputs == {GCRYCTL_RESET, GCRYCTL_RESET + 1}

(* ------------------------------ actions -------------------------------- *)

Init ==
    /\ mac_list \in Registries
    /\ mem = [a \in Addrs |-> ZeroHandle]
    /\ live = {}
    /\ last = NoReport

\* A caller opens a handle.
Open(algo, flags, ctx) ==
    \E a \in (Addrs \ live) \cup {NULL}, cb \in CallbackResults :
      LET r == gcry_mac_open(algo, flags, ctx, a, cb)
      IN /\ mem' = r.o.mem
         /\ live' = r.o.live
         /\ last' = Report("open", NULL, NULL, algo, flags, ctx, NULL, NULL, 0,
                           r.ret, r.slot, r.o.steps, r.o.released)
         /\ UNCHANGED mac_list

\* gcry_mac_close on a live handle; the report's len field records the number
\* of key bytes the handle held on entry.
Close(hd) ==
    /\ hd \in live
    /\ LET r == mac_close(hd)
       IN /\ mem' = [mem EXCEPT ![hd] = r.released[1]]
          /\ live' = live \ {hd}
          /\ last' = Report("close", hd, mem[hd].spec, 0, 0, NULL, NULL, NULL,
                            mem[hd].u.key, 0, NULL, r.steps, r.released)
    /\ UNCHANGED mac_list

\* The state after a dispatch operation on handle hd with outcome o.
Dispatched(op, hd, ptr, lenp, len, o) ==
    /\ mem' = [mem EXCEPT ![hd] = o.h]
    /\ last' = Report(op, hd, mem[hd].spec, 0, 0, NULL, ptr, lenp, len, o.err, NULL, o.steps, <<>>)
    /\ UNCHANGED <<mac_list, live>>

SetKey(hd, key, keylen) ==
    /\ hd \in live
    /\ \E cb \in CallbackResults :
         Dispatched("setkey", hd, key, NULL, keylen, gcry_mac_setkey(hd, key, keylen, cb))

SetIv(hd, iv, ivlen) ==
    /\ hd \in live
    /\ \E cb \in CallbackResults :
         Dispatched("setiv", hd, iv, NULL, ivlen, gcry_mac_setiv(hd, iv, ivlen, cb))

Write(hd, inbuf, inlen) ==
    /\ hd \in live
    /\ \E cb \in CallbackResults :
         Dispatched("write", hd, inbuf, NULL, inlen, gcry_mac_write(hd, inbuf, inlen, cb))

\* outlenp = NULL: no length to read, recorded as 0.
Read(hd, outbuf, outlenp, outlen) ==
    /\ hd \in live
    /\ outlenp = NULL => outlen = 0
    /\ \E cb \in CallbackResults :
         Dispatched("read", hd, outbuf, outlenp, outlen,
                    gcry_mac_read(hd, outbuf, outlenp, outlen, cb))

Verify(hd, buf, buflen) ==
    /\ hd \in live
    /\ \E cb \in CallbackResults :
         Dispatched("verify", hd, buf, NULL, buflen, gcry_mac_verify(hd, buf, buflen, cb))

\* gcry_mac_ctl; the command is recorded in the report's flags field.
Ctl(hd, cmd) ==
    /\ hd \in live
    /\ \E cb \in CallbackResults :
         LET o == gcry_mac_ctl(hd, cmd, cb)
         IN /\ mem' = [mem EXCEPT ![hd] = o.h]
            /\ last' = Report("ctl", hd, mem[hd].spec, 0, cmd, NULL, NULL, NULL, 0, o.err, NULL,
                              o.steps, <<>>)
            /\ UNCHANGED <<mac_list, live>>

Next ==
    \/ \E algo \in AlgoInputs, flags \in FlagInputs, ctx \in CtxInputs :
         Open(algo, flags, ctx)
    \/ \E hd \in Addrs : Close(hd)
    \/ \E hd \in Addrs, key \in PtrInputs, keylen \in LenInputs : SetKey(hd, key, keylen)
    \/ \E hd \in Addrs, iv \in PtrInputs, ivlen \in LenInputs : SetIv(hd, iv, ivlen)
    \/ \E hd \in Addrs, inbuf \in PtrInputs, inlen \in LenInputs : Write(hd, inbuf, inlen)
    \/ \E hd \in Addrs, outbuf \in PtrInputs, outlenp \in PtrInputs, outlen \in LenInputs :
         Read(hd, outbuf, outlenp, outlen)
    \/ \E hd \in Addrs, buf \in PtrInputs, buflen \in LenInputs : Verify(hd, buf, buflen)
    \/ \E hd \in Addrs, cmd \in CmdInputs : Ctl(hd, cmd)

Spec == Init /\ [][Next]_vars

(* ------------------------- registry queries ---------------------------- *)

InfoAlgoInputs == {0, 1, 5, 7}
WhatInputs == {GCRYCTL_TEST_ALGO, GCRYCTL_GET_KEYLEN, GCRYCTL_RESET}
StringInputs == Names \cup {<<>>}

InitInfo ==
    /\ mac_list \in InfoRegistries
    /\ mem = [a \in Addrs |-> ZeroHandle]
    /\ live = {}
    /\ last = NoReport

Queried(r) ==
    /\ last' = r
    /\ UNCHANGED <<mac_list, mem, live>>

\* gcry_mac_map_name; a null string is recorded as the empty one with ptr NULL.
MapName(strp, string) ==
    /\ strp = NULL => string = <<>>
    /\ Queried([NoReport EXCEPT !.op = "map_name", !.ptr = strp, !.name = string,
                                !.id = gcry_mac_map_name(strp, string)])

\* gcry_mac_algo_name
AlgoName(algo) ==
    Queried([NoReport EXCEPT !.op = "algo_name", !.algo = algo,
                             !.name = gcry_mac_algo_name(algo)])

\* A caller takes the name of an id, maps it back to an id and takes that
\* id's name.
NameRoundTrip(algo) ==
    LET n1 == gcry_mac_algo_name(algo)
        id == gcry_mac_map_name(1, n1)
        n2 == gcry_mac_algo_name(id)
    IN Queried([NoReport EXCEPT !.op = "round_trip", !.algo = algo, !.name = n1,
                                !.id = id, !.name2 = n2])

\* gcry_mac_get_algo_keylen
GetAlgoKeylen(algo) ==
    Queried([NoReport EXCEPT !.op = "get_algo_keylen", !.algo = algo,
                             !.len = gcry_mac_get_algo_keylen(algo)])

\* gcry_mac_algo_info; the query is recorded in the report's flags field,
\* buffer in ptr, nbytes in lenp, *nbytes afterwards in len.
AlgoInfo(algo, what, buffer, nbytes) ==
    LET r == gcry_mac_algo_info(algo, what, buffer, nbytes)
    IN Queried([NoReport EXCEPT !.op = "algo_info", !.algo = algo, !.flags = what,
                                !.ptr = buffer, !.lenp = nbytes, !.len = r.out,
                                !.ret = r.ret])

NextInfo ==
    \/ \E strp \in PtrInputs, string \in StringInputs : MapName(strp, string)
    \/ \E algo \in InfoAlgoInputs : AlgoName(algo)
    \/ \E algo \in InfoAlgoInputs : NameRoundTrip(algo)
    \/ \E algo \in InfoAlgoInputs : GetAlgoKeylen(algo)
    \/ \E algo \in InfoAlgoInputs, what \in WhatInputs, buffer \in PtrInputs,
          nbytes \in PtrInputs : AlgoInfo(algo, what, buffer, nbytes)

SpecInfo == InitInfo /\ [][NextInfo]_vars

(* ------------------------------ claims --------------------------------- *)

\* The names of the steps of a report, in order.
EvNames(steps) == [i \in 1..Len(steps) |-> steps[i].ev]

\* Every byte of a handle's memory is zero.
AllZero(h) ==
    /\ h.magic = 0 /\ h.spec = 0 /\ h.algo = 0 /\ h.gcry_ctx = 0
    /\ h.u.key = 0 /\ h.u.iv = 0 /\ h.u.msg = 0

\* The descriptors of the list with this id.
WithId(algo) == {i \in 1..Len(mac_list) : mac_list[i].algo = algo}

\* A descriptor open accepts: enabled, with a table that has every mandatory
\* entry.
Usable(d) ==
    /\ ~d.disabled
    /\ d.has_ops
    /\ \A m \in {"open", "write", "setkey", "read", "verify", "reset"} : m \in d.ops

\* The flag words that set no other bit than SECURE.
ValidFlags(flags) == flags \in {0, GCRY_MAC_FLAG_SECURE}

Allocs(steps) ==
    {steps[i].res : i \in {j \in 1..Len(steps) :
                             steps[j].ev \in {"calloc", "calloc_secure"}}} \ {NULL}

Frees(steps) == {steps[i].res : i \in {j \in 1..Len(steps) : steps[j].ev = "free"}}

\* C1: close invokes the descriptor's close callback if and only if the
\* descriptor provides one, then wipes the handle, then releases it: the
\* memory handed to the allocator has every byte zero and the handle is no
\* longer allocated, whatever was done with the handle before.
C1_CloseWipesThenReleases ==
    last.op = "close" =>
      /\ EvNames(last.steps) =
           (IF "close" \in mac_list[last.spec].ops THEN <<"cb_close">> ELSE <<>>)
           \o <<"wipe", "free">>
      /\ Len(last.released) = 1
      /\ AllZero(last.released[1])
      /\ last.hd \notin live

\* A handle that held key bytes, bound to a descriptor with a close callback,
\* has been closed.
C1_Witness ==
    /\ last.op = "close"
    /\ last.len > 0
    /\ "close" \in mac_list[last.spec].ops

\* C2: open is atomic.  Either it returns success and the caller's slot holds
\* an allocated handle bound to the resolved descriptor, the requested id and
\* the external context, whose descriptor's open succeeded; or it returns an
\* error, the slot is null and every address it allocated has been released
\* and is not allocated.  When the descriptor's open fails its error is the
\* one returned.
C2_OpenAtomic ==
    last.op = "open" =>
      \/ /\ last.ret = 0
         /\ last.slot # NULL
         /\ last.slot \in live
         /\ Allocs(last.steps) = {last.slot}
         /\ Frees(last.steps) = {}
         /\ WithId(last.algo) # {}
         /\ mem[last.slot].spec = Min(WithId(last.algo))
         /\ mem[last.slot].algo = last.algo
         /\ mem[last.slot].gcry_ctx = last.ctx
         /\ \E i \in 1..Len(last.steps) : last.steps[i] = Ev("cb_open", 0)
      \/ /\ last.ret # 0
         /\ last.slot = NULL
         /\ Allocs(last.steps) \subseteq Frees(last.steps)
         /\ Allocs(last.steps) \cap live = {}
         /\ \A i \in 1..Len(last.steps) :
              last.steps[i].ev = "cb_open" =>
                /\ last.steps[i].res # 0
                /\ last.ret = GPG_ERR_SOURCE_GCRYPT * 16777216 + last.steps[i].res

\* An open whose descriptor's open callback failed after the handle was
\* allocated.
C2_Witness ==
    /\ last.op = "open"
    /\ last.ret # 0
    /\ Allocs(last.steps) # {}
    /\ \E i \in 1..Len(last.steps) :
         last.steps[i].ev = "cb_open" /\ last.steps[i].res # 0

\* C3: open with valid flags on an id that is not registered, or whose
\* descriptor is disabled, or has no capability table, or lacks one of open,
\* write, setkey, read, verify, reset, returns GPG_ERR_MAC_ALGO, leaves the
\* caller's slot null, allocates nothing and does not invoke the descriptor's
\* open.
C3_UnusableAlgoRejected ==
    (/\ last.op = "open"
     /\ ValidFlags(last.flags)
     /\ \A i \in WithId(last.algo) : ~Usable(mac_list[i]))
    =>
      /\ last.ret % 65536 = GPG_ERR_MAC_ALGO
      /\ last.slot = NULL
      /\ EvNames(last.steps) = <<"lookup">>
      /\ last.released = <<>>

\* An open with valid flags of an enabled descriptor whose table lacks reset
\* only.
C3_Witness ==
    /\ last.op = "open"
    /\ ValidFlags(last.flags)
    /\ \E i \in WithId(last.algo) :
         /\ ~mac_list[i].disabled
         /\ mac_list[i].ops = AllOps \ {"reset"}

\* C7: open with a flag bit other than SECURE returns GPG_ERR_INV_ARG with
\* the caller's slot null, and takes no step at all: no registry lookup, no
\* allocation, no descriptor callback; whatever the id.
C7_UnknownFlagRejectedFirst ==
    (last.op = "open" /\ ~ValidFlags(last.flags)) =>
      /\ last.ret % 65536 = GPG_ERR_INV_ARG
      /\ last.slot = NULL
      /\ last.steps = <<>>
      /\ last.released = <<>>

\* An open of a usable algorithm with the SECURE bit and another bit set.
C7_Witness ==
    /\ last.op = "open"
    /\ last.flags = GCRY_MAC_FLAG_SECURE + 2
    /\ \E i \in WithId(last.algo) : Usable(mac_list[i])

\* The value a caller gets for error code c.
ErrValue(c) == IF c = 0 THEN 0 ELSE GPG_ERR_SOURCE_GCRYPT * 16777216 + c

\* The report r is of a call that invoked the descriptor's operation cbname
\* once, nothing else, and returned its result.
Forwarded(r, cbname) ==
    /\ Len(r.steps) = 1
    /\ r.steps[1].ev = cbname
    /\ r.ret = ErrValue(r.steps[1].res)

\* The report r is of a call that failed with GPG_ERR_INV_ARG without taking
\* any step.
Refused(r) ==
    /\ r.ret % 65536 = GPG_ERR_INV_ARG
    /\ r.steps = <<>>

CallbackOf ==
    [setkey |-> "cb_setkey", setiv |-> "cb_setiv", write |-> "cb_write",
     read |-> "cb_read", verify |-> "cb_verify"]

\* The capability table of the descriptor the reported call's handle was
\* bound to.
ReportOps(r) == mac_list[r.spec].ops

\* The arguments of the reported dispatch call fail the dispatcher's own
\* validation.
GenericInvalid(r) ==
    \/ /\ r.op \in {"setkey", "setiv", "write"}
       /\ \/ r.op \notin ReportOps(r)
          \/ r.len > 0 /\ r.ptr = NULL
    \/ /\ r.op = "read"
       /\ r.ptr = NULL \/ r.lenp = NULL \/ r.len = 0 \/ "read" \notin ReportOps(r)
    \/ /\ r.op = "verify"
       /\ r.ptr = NULL \/ r.len = 0 \/ "verify" \notin ReportOps(r)

\* C4: a dispatch operation (setkey, setiv, write, read, verify) whose
\* arguments fail the dispatcher's generic validation returns
\* GPG_ERR_INV_ARG, does not invoke the descriptor's operation and leaves the
\* handle and the allocation as they were; read with *outlen = 0 does so
\* whether or not the buffer is null.
C4_ValidationErrorChangesNothing ==
    [][ /\ GenericInvalid(last') =>
             /\ Refused(last')
             /\ mem' = mem
             /\ live' = live
        /\ (last'.op = "read" /\ last'.lenp # NULL /\ last'.len = 0) =>
             Refused(last')
      ]_vars

\* A read with a buffer and *outlen = 0 on a handle that holds a key.
C4_Witness ==
    /\ last.op = "read"
    /\ last.ptr # NULL
    /\ last.lenp # NULL
    /\ last.len = 0
    /\ last.hd \in live
    /\ mem[last.hd].u.key > 0

\* C5: setkey, setiv and write on a handle whose descriptor provides the
\* operation: with length 0 and a null pointer the call is forwarded to the
\* descriptor's operation and returns its result (a successful setkey or
\* setiv then holds zero bytes); with a length above 0 and a null pointer it
\* fails with GPG_ERR_INV_ARG without invoking the operation.
C5_NullPointerByLength ==
    (last.op \in {"setkey", "setiv", "write"} /\ last.op \in ReportOps(last)
     /\ last.ptr = NULL)
    =>
      /\ last.len = 0 =>
           /\ Forwarded(last, CallbackOf[last.op])
           /\ (last.ret = 0 /\ last.op = "setkey") => mem[last.hd].u.key = 0
           /\ (last.ret = 0 /\ last.op = "setiv") => mem[last.hd].u.iv = 0
      /\ last.len > 0 => Refused(last)

\* A setkey with length 0 and a null key that the descriptor's setkey
\* accepted.
C5_Witness ==
    /\ last.op = "setkey"
    /\ last.ptr = NULL
    /\ last.len = 0
    /\ "setkey" \in ReportOps(last)
    /\ last.ret = 0
    /\ Did(last.steps, "cb_setkey")

\* C6 as stated: on a handle whose descriptor has no setiv, setiv with valid
\* arguments returns success and invokes nothing; on a handle whose
\* descriptor has no close, close skips the callback and still wipes and
\* releases the handle.
C6_AbsentOptionalIsNoOp ==
    /\ (last.op = "setiv" /\ "setiv" \notin ReportOps(last)
        /\ (last.len = 0 \/ last.ptr # NULL))
       => (last.ret = 0 /\ last.steps = <<>>)
    /\ (last.op = "close" /\ "close" \notin ReportOps(last))
       => /\ EvNames(last.steps) = <<"wipe", "free">>
          /\ Len(last.released) = 1
          /\ AllZero(last.released[1])
          /\ last.hd \notin live

\* C6 amended: only close is optional without error.  On a handle whose
\* descriptor has no setiv, setiv returns GPG_ERR_INV_ARG whatever its
\* arguments, invokes nothing and changes nothing; on a handle whose
\* descriptor has no close, close skips the callback and still wipes and
\* releases the handle.
C6_AbsentSetivIsError ==
    [][ /\ (last'.op = "setiv" /\ "setiv" \notin ReportOps(last'))
           => /\ Refused(last')
              /\ mem' = mem
              /\ live' = live
        /\ (last'.op = "close" /\ "close" \notin ReportOps(last'))
           => /\ EvNames(last'.steps) = <<"wipe", "free">>
              /\ Len(last'.released) = 1
              /\ AllZero(last'.released[1])
              /\ last'.hd \notin live'
      ]_vars

\* A setiv with a buffer of one byte or more on a handle whose descriptor
\* has no setiv.
C6_Witness ==
    /\ last.op = "setiv"
    /\ "setiv" \notin ReportOps(last)
    /\ last.ptr # NULL
    /\ last.len > 0

\* C10: every live handle is bound to a registered, enabled descriptor whose
\* table has open, write, setkey, read, verify and reset; so setkey, write,
\* read and verify with valid arguments always reach the descriptor's
\* operation, and reset always invokes the descriptor's reset and returns
\* its result.
C10_LiveHandleUsable ==
    /\ \A a \in live :
         /\ mem[a].spec \in 1..Len(mac_list)
         /\ Usable(mac_list[mem[a].spec])
    /\ (last.op \in {"setkey", "write"} /\ (last.len = 0 \/ last.ptr # NULL))
       => Forwarded(last, CallbackOf[last.op])
    /\ (last.op = "read" /\ last.ptr # NULL /\ last.lenp # NULL /\ last.len > 0)
       => Forwarded(last, "cb_read")
    /\ (last.op = "verify" /\ last.ptr # NULL /\ last.len > 0)
       => Forwarded(last, "cb_verify")
    /\ (last.op = "ctl" /\ last.flags = GCRYCTL_RESET)
       => Forwarded(last, "cb_reset")

\* A successful reset of a live handle that holds a key.
C10_Witness ==
    /\ last.op = "ctl"
    /\ last.flags = GCRYCTL_RESET
    /\ last.ret = 0
    /\ last.hd \in live
    /\ mem[last.hd].u.key > 0

\* C8 as stated: the TEST_ALGO query without extra arguments succeeds if and
\* only if the id is registered, its descriptor is not disabled and its
\* capability table is present; with a buffer or nbytes argument it fails
\* with GPG_ERR_INV_ARG.
C8_AvailableIffTablePresent ==
    (last.op = "algo_info" /\ last.flags = GCRYCTL_TEST_ALGO) =>
      IF last.ptr = NULL /\ last.lenp = NULL
      THEN last.ret = 0 <=>
             \E i \in WithId(last.algo) :
               ~mac_list[i].disabled /\ mac_list[i].has_ops
      ELSE last.ret % 65536 = GPG_ERR_INV_ARG

\* C8 amended: the TEST_ALGO query without extra arguments succeeds if and
\* only if the id is registered and its descriptor is not disabled, whether
\* or not the descriptor has a capability table, and fails with
\* GPG_ERR_MAC_ALGO otherwise; with a buffer or nbytes argument it fails with
\* GPG_ERR_INV_ARG.
C8_AvailableIffEnabled ==
    (last.op = "algo_info" /\ last.flags = GCRYCTL_TEST_ALGO) =>
      IF last.ptr = NULL /\ last.lenp = NULL
      THEN /\ last.ret = 0 <=> \E i \in WithId(last.algo) : ~mac_list[i].disabled
           /\ last.ret # 0 => last.ret % 65536 = GPG_ERR_MAC_ALGO
      ELSE last.ret % 65536 = GPG_ERR_INV_ARG

\* A TEST_ALGO query without extra arguments of a registered, enabled
\* descriptor that has no capability table.
C8_Witness ==
    /\ last.op = "algo_info"
    /\ last.flags = GCRYCTL_TEST_ALGO
    /\ last.ptr = NULL
    /\ last.lenp = NULL
    /\ \E i \in WithId(last.algo) : ~mac_list[i].disabled /\ ~mac_list[i].has_ops

\* C9: for every id in the registry, the name of the id that map_name gives
\* for the id's name is the id's name again.
C9_NameRoundTrip ==
    (last.op = "round_trip" /\ WithId(last.algo) # {}) =>
      last.name2 = last.name

\* A round trip of the second descriptor of the list, whose name has an
\* upper case letter.
C9_Witness ==
    /\ last.op = "round_trip"
    /\ Len(mac_list) = 2
    /\ last.algo = mac_list[2].algo
    /\ \E i \in 1..Len(last.name) : last.name[i] = "A"
    /\ last.id = last.algo

====
